---- MODULE Spec2Model ----
(***************************************************************************)
(* Model of conan_fgw/src/trainer.py: the TrainerHolder class.  A holder   *)
(* is built once from an experiment configuration; its methods build the   *)
(* early-stopping and checkpoint policies, the logger, the execution       *)
(* strategy and the run object (pl.Trainer).  Strings are TLA+ strings     *)
(* (Len, \o and SubSeq apply to them); every object the code constructs    *)
(* is a record carrying the identity ("id") it was allocated with.         *)
(***************************************************************************)
EXTENDS FiniteSets, Integers, Sequences, TLC

VARIABLES
    args,       \* the arguments __init__ was called with (never assigned again)
    holder,     \* the TrainerHolder's attributes (self.*)
    nextId,     \* identity the next constructed object gets
    call,       \* the last method call: its name and arguments
    ret,        \* the value the last call returned
    log,        \* the lines the last call sent to the module logger
    trainers    \* the run objects create_trainer returned, oldest first

vars == <<args, holder, nextId, call, ret, log, trainers>>

(***************************************************************************)
(* Bounds of the model.                                                    *)
(***************************************************************************)
\* create_trainer is called at most this many times in a behaviour
MaxTrainers == 2
\* direct calls of the other object-building methods in a behaviour
MaxDirectCalls == 1

(***************************************************************************)
(* Values the arguments are drawn from.                                    *)
(***************************************************************************)
\* config.experiment.model_class.__name__
ModelClassNames ==
    {"SchNetClassification", "SchNetRegression", "classification"}

\* monitor_set: the two splits the code names, another split, and a split
\* whose own name holds the word the checkpoint branch searches for
MonitorSets == {"val", "train", "test", "mean"}

\* torch.device: its type and index (-1 stands for "no index")
Devices ==
    { [type |-> "cuda", index |-> 0],
      [type |-> "cpu",  index |-> -1],
      [type |-> "mps",  index |-> -1],
      [type |-> "xpu",  index |-> 0] }

\* config.num_epochs, config.batch_size, config.early_stopping.*
\* (min_delta in thousandths), four different numbers so that no field can
\* stand in for another
Numerics ==
    { [num_epochs |-> 100, batch_size |-> 32, min_delta |-> 1, patience |-> 10] }

CheckpointDirs == {"ckpt"}
LogDirs == {"logs"}

\* run names: an identifier and the empty string
RunNames == {"run1", ""}

\* task values handed to checkpoint_callback
Tasks == {"regression", "classification", "ranking"}

\* letters random.choice draws from (a part of string.ascii_lowercase)
Letters == {"a", "b"}

\* length of the generated experiment name
RandomNameLen == 15

None == [kind |-> "None"]

(***************************************************************************)
(* Pure helpers of Python and of the libraries.                            *)
(***************************************************************************)
\* Python's  sub in s  on strings
Contains(sub, s) ==
    \E i \in 1..(Len(s) - Len(sub) + 1) : SubSeq(s, i, i + Len(sub) - 1) = sub

\* posixpath.join(a, b)
PathJoin(a, b) ==
    IF Len(b) > 0 /\ SubSeq(b, 1, 1) = "/" THEN b
    ELSE IF Len(a) = 0 \/ SubSeq(a, Len(a), Len(a)) = "/" THEN a \o b
    ELSE a \o "/" \o b

(***************************************************************************)
(* Static metric-name methods.                                             *)
(***************************************************************************)
regression_metric_name == "rmse"

classification_metric_name(trade_off) ==
    IF trade_off THEN <<"auroc", "prc", "mean">> ELSE <<"auroc", "prc">>

\* GradientAccumulationScheduler(scheduling={0: 10, 4: 5, 10: 1})
gradient_accumulator_callback(id) ==
    [kind |-> "GradientAccumulationScheduler", id |-> id,
     scheduling |-> {<<0, 10>>, <<4, 5>>, <<10, 1>>}]

(***************************************************************************)
(* __init__                                                                *)
(***************************************************************************)
\* task kind as both __init__ and create_trainer decide it
IsClassification(config) == Contains("Classification", config.model_class_name)

\* variant: the trade-off flag is not consulted, the first metric is taken
metric_to_monitor_first(config, monitor_set) ==
    IF IsClassification(config)
    THEN monitor_set \o "_" \o classification_metric_name(config.trade_off)[1]
    ELSE "val_" \o regression_metric_name

\* variant: the regression target follows monitor_set as the classification
\* target does
metric_to_monitor_split(config, monitor_set) ==
    IF IsClassification(config) THEN
        LET names == classification_metric_name(config.trade_off)
        IN  monitor_set \o "_" \o (IF config.trade_off THEN names[Len(names)] ELSE names[1])
    ELSE monitor_set \o "_" \o regression_metric_name

\* lines 52-58: the monitor target
metric_to_monitor(config, monitor_set) ==
    IF IsClassification(config) THEN
        IF config.trade_off
        THEN LET names == classification_metric_name(config.trade_off)
             IN  monitor_set \o "_" \o names[Len(names)]
        ELSE LET names == classification_metric_name(config.trade_off)
             IN  monitor_set \o "_" \o names[1]
    ELSE "val_" \o regression_metric_name

\* the attributes after __init__(config, is_distributed, device,
\* checkpoints_dir, logs_dir, monitor_set); the three callbacks built here
\* get the identities 1, 2 and 3
Construct(a) ==
    [config |-> a.config,
     device |-> a.device,
     logs_dir |-> PathJoin(a.logs_dir, "metrics"),
     metric_to_monitor |-> metric_to_monitor(a.config, a.monitor_set),
     is_distributed |-> a.is_distributed,
     checkpoints_dir |-> a.checkpoints_dir,
     lr_monitor |-> [kind |-> "LearningRateMonitor", id |-> 1, logging_interval |-> "step"],
     timer |-> [kind |-> "Timer", id |-> 2, verbose |-> TRUE],
     monitor_set |-> a.monitor_set,
     StochasticWeightAveraging |->
         [kind |-> "StochasticWeightAveraging", id |-> 3, swa_lrs_hundredths |-> 1]]

Configs ==
    { [model_class_name |-> m, trade_off |-> t, num_epochs |-> n.num_epochs,
       batch_size |-> n.batch_size,
       early_stopping |-> [min_delta |-> n.min_delta, patience |-> n.patience]] :
      m \in ModelClassNames, t \in BOOLEAN, n \in Numerics }

Args ==
    { [config |-> c, is_distributed |-> d, device |-> dev,
       checkpoints_dir |-> cd, logs_dir |-> ld, monitor_set |-> ms] :
      c \in Configs, d \in BOOLEAN, dev \in Devices,
      cd \in CheckpointDirs, ld \in LogDirs, ms \in MonitorSets }

(***************************************************************************)
(* The object-building methods.  Each takes the holder (self), the call's  *)
(* arguments and the identity the object it builds gets.                   *)
(***************************************************************************)
RECURSIVE Repeat(_, _)
\* Python's  s * n  on strings
Repeat(s, n) == IF n <= 0 THEN "" ELSE s \o Repeat(s, n - 1)

\* logger.info("*" * 100)
Stars == Repeat("*", 100)

\* "".join(random.choice(string.ascii_lowercase) for _ in range(15)): the
\* outcomes explored are the names that repeat one letter
RandomNames == { Repeat(c, RandomNameLen) : c \in Letters }

\* variant: the metric-based outcome minimizes as the loss-based one does
early_stopping_callback_min(self, use_loss, id) ==
    [kind |-> "EarlyStopping", id |-> id,
     monitor |-> IF use_loss THEN "val_loss" ELSE self.metric_to_monitor,
     min_delta |-> self.config.early_stopping.min_delta,
     patience |-> self.config.early_stopping.patience,
     mode |-> "min",
     verbose |-> TRUE,
     check_finite |-> TRUE]

\* lines 212-226
early_stopping_callback(self, use_loss, id) ==
    LET obj_monitor == IF use_loss THEN "val_loss" ELSE self.metric_to_monitor
        mode == IF use_loss THEN "min" ELSE "max"
    IN  [kind |-> "EarlyStopping", id |-> id,
         monitor |-> obj_monitor,
         min_delta |-> self.config.early_stopping.min_delta,
         patience |-> self.config.early_stopping.patience,
         mode |-> mode,
         verbose |-> TRUE,
         check_finite |-> TRUE]

\* one ModelCheckpoint(...) call of lines 244-290
ModelCheckpoint(id, dirpath, filename, monitor, mode) ==
    [kind |-> "ModelCheckpoint", id |-> id,
     dirpath |-> dirpath, filename |-> filename, verbose |-> TRUE,
     monitor |-> monitor, mode |-> mode, save_last |-> TRUE]

\* variant: the regression branch monitors the metric its filename
\* template names instead of the holder's monitor target
checkpoint_callback_rmse(self, run_name, task, id) ==
    LET dirpath == PathJoin(self.checkpoints_dir, run_name)
    IN  IF task = "regression" THEN
            ModelCheckpoint(id, dirpath, "{epoch}-{step}-{val_rmse:.2f}",
                            "val_rmse", "min")
        ELSE IF task = "classification" THEN
            IF Contains("mean", self.metric_to_monitor) THEN
                IF self.monitor_set = "train"
                THEN ModelCheckpoint(id, dirpath, "{epoch}-{step}-{train_mean:.2f}",
                                     self.metric_to_monitor, "max")
                ELSE ModelCheckpoint(id, dirpath, "{epoch}-{step}-{val_mean:.2f}",
                                     self.metric_to_monitor, "max")
            ELSE
                IF self.monitor_set = "train"
                THEN ModelCheckpoint(id, dirpath, "{epoch}-{step}-{train_auroc:.2f}",
                                     self.metric_to_monitor, "max")
                ELSE ModelCheckpoint(id, dirpath, "{epoch}-{step}-{val_auroc:.2f}",
                                     self.metric_to_monitor, "max")
        ELSE None

\* variant: the split is not consulted, every classification template is a
\* "val" one
checkpoint_callback_val(self, run_name, task, id) ==
    LET dirpath == PathJoin(self.checkpoints_dir, run_name)
    IN  IF task = "regression" THEN
            ModelCheckpoint(id, dirpath, "{epoch}-{step}-{val_rmse:.2f}",
                            self.metric_to_monitor, "min")
        ELSE IF task = "classification" THEN
            IF Contains("mean", self.metric_to_monitor)
            THEN ModelCheckpoint(id, dirpath, "{epoch}-{step}-{val_mean:.2f}",
                                 self.metric_to_monitor, "max")
            ELSE ModelCheckpoint(id, dirpath, "{epoch}-{step}-{val_auroc:.2f}",
                                 self.metric_to_monitor, "max")
        ELSE None

\* lines 239-290; falling off the end of the function returns None
checkpoint_callback(self, run_name, task, id) ==
    LET dirpath == PathJoin(self.checkpoints_dir, run_name)
    IN  IF task = "regression" THEN
            ModelCheckpoint(id, dirpath, "{epoch}-{step}-{val_rmse:.2f}",
                            self.metric_to_monitor, "min")
        ELSE IF task = "classification" THEN
            IF Contains("mean", self.metric_to_monitor) THEN
                IF self.monitor_set = "train"
                THEN ModelCheckpoint(id, dirpath, "{epoch}-{step}-{train_mean:.2f}",
                                     self.metric_to_monitor, "max")
                ELSE ModelCheckpoint(id, dirpath, "{epoch}-{step}-{val_mean:.2f}",
                                     self.metric_to_monitor, "max")
            ELSE
                IF self.monitor_set = "train"
                THEN ModelCheckpoint(id, dirpath, "{epoch}-{step}-{train_auroc:.2f}",
                                     self.metric_to_monitor, "max")
                ELSE ModelCheckpoint(id, dirpath, "{epoch}-{step}-{val_auroc:.2f}",
                                     self.metric_to_monitor, "max")
        ELSE None

\* lines 240-242: what checkpoint_callback logs (the pictograph that opens
\* the message is left out)
checkpoint_log(self, run_name) ==
    <<Stars, "Saving checkpoint @ " \o PathJoin(self.checkpoints_dir, run_name), Stars>>

\* lines 192-193: the experiment name in use (random is the generated name)
experiment_name_used(experiment_name, random) ==
    IF experiment_name = "" THEN random ELSE experiment_name

\* lines 192-200: the list holding one CSVLogger
create_logger(self, experiment_name, random, id) ==
    << [kind |-> "CSVLogger", id |-> id,
        save_dir |-> self.logs_dir,
        name |-> experiment_name_used(experiment_name, random)] >>

\* lines 195-199: what create_logger logs (the pictograph that opens the
\* message is left out)
logger_log(self, experiment_name, random) ==
    <<Stars,
      "Monitoring all metrics @ "
          \o PathJoin(self.logs_dir, experiment_name_used(experiment_name, random))
          \o " | Saving ckpt by " \o self.metric_to_monitor,
      Stars>>

\* SingleDeviceStrategy(device, accelerator=...)
SingleDeviceStrategy(id, device, accelerator) ==
    [kind |-> "SingleDeviceStrategy", id |-> id,
     device |-> device, accelerator |-> accelerator]

\* torch.device("cpu")
CpuDevice == [type |-> "cpu", index |-> -1]

\* lines 309-319; no branch for any other device type: the function ends
\* and returns None
training_strategy(self, id) ==
    IF self.device.type = "cuda" THEN
        IF self.is_distributed
        THEN [kind |-> "str", value |-> "ddp_find_unused_parameters_false"]
        ELSE SingleDeviceStrategy(id, self.device, "cuda")
    ELSE IF self.device.type = "cpu" THEN
        SingleDeviceStrategy(id, self.device, "cpu")
    ELSE IF self.device.type = "mps" THEN
        SingleDeviceStrategy(id, CpuDevice, "cpu")
    ELSE None

\* objects a value holds: 1 for a constructed object, 0 for a str or None
Allocated(v) == IF "id" \in DOMAIN v THEN 1 ELSE 0

\* variant: the class name is compared with, not searched for, the word
task_of_exact(self) ==
    IF self.config.model_class_name = "Classification"
    THEN "classification" ELSE "regression"

\* lines 160-163
task_of(self) ==
    IF Contains("Classification", self.config.model_class_name)
    THEN "classification" ELSE "regression"

\* variant: the checkpoint policy is built once and kept on the holder, as
\* the learning-rate monitor and the timer are
trainer_callbacks_kept(self, run_name, id) ==
    << early_stopping_callback(self, TRUE, id),
       checkpoint_callback(self, run_name, task_of(self), 4),
       self.lr_monitor,
       self.timer >>

\* lines 164-169: the callback list, built left to right
trainer_callbacks(self, run_name, id) ==
    << early_stopping_callback(self, TRUE, id),
       checkpoint_callback(self, run_name, task_of(self), id + 1),
       self.lr_monitor,
       self.timer >>

\* lines 160-180: the callbacks take id and id+1, the logger id+2, the
\* strategy id+3 when it is an object, the run object the next identity
create_trainer(self, run_name, random, id) ==
    LET callbacks == trainer_callbacks(self, run_name, id)
        loggers == create_logger(self, run_name, random, id + 2)
        strategy == training_strategy(self, id + 3)
    IN  [kind |-> "Trainer", id |-> id + 3 + Allocated(strategy),
         max_epochs |-> self.config.num_epochs,
         logger |-> loggers,
         log_every_n_steps |-> self.config.batch_size,
         callbacks |-> callbacks,
         strategy |-> strategy,
         gradient_clip_val |-> 1,
         default_root_dir |-> self.checkpoints_dir,
         num_sanity_val_steps |-> -1]

(***************************************************************************)
(* The state machine: a constructed holder, then any sequence of calls.    *)
(***************************************************************************)
\* number of direct calls made so far is kept in call.n
Init ==
    /\ args \in Args
    /\ holder = Construct(args)
    /\ nextId = 4
    /\ call = [method |-> "__init__", n |-> 0]
    /\ ret = None
    /\ log = <<>>
    /\ trainers = <<>>

CallRegressionMetricName ==
    /\ call.n < MaxDirectCalls
    /\ call' = [method |-> "regression_metric_name", n |-> call.n + 1]
    /\ ret' = [kind |-> "str", value |-> regression_metric_name]
    /\ log' = <<>>
    /\ UNCHANGED <<args, holder, nextId, trainers>>

CallClassificationMetricName ==
    \E trade_off \in BOOLEAN :
        /\ call.n < MaxDirectCalls
        /\ call' = [method |-> "classification_metric_name", n |-> call.n + 1,
                    trade_off |-> trade_off]
        /\ ret' = [kind |-> "list", value |-> classification_metric_name(trade_off)]
        /\ log' = <<>>
        /\ UNCHANGED <<args, holder, nextId, trainers>>

CallGradientAccumulatorCallback ==
    /\ call.n < MaxDirectCalls
    /\ call' = [method |-> "gradient_accumulator_callback", n |-> call.n + 1]
    /\ ret' = gradient_accumulator_callback(nextId)
    /\ nextId' = nextId + 1
    /\ log' = <<>>
    /\ UNCHANGED <<args, holder, trainers>>

CallEarlyStoppingCallback ==
    \E use_loss \in BOOLEAN :
        /\ call.n < MaxDirectCalls
        /\ call' = [method |-> "early_stopping_callback", n |-> call.n + 1,
                    use_loss |-> use_loss]
        /\ ret' = early_stopping_callback(holder, use_loss, nextId)
        /\ nextId' = nextId + 1
        /\ log' = <<>>
        /\ UNCHANGED <<args, holder, trainers>>

CallCheckpointCallback ==
    \E run_name \in RunNames, task \in Tasks :
        /\ call.n < MaxDirectCalls
        /\ call' = [method |-> "checkpoint_callback", n |-> call.n + 1,
                    run_name |-> run_name, task |-> task]
        /\ ret' = checkpoint_callback(holder, run_name, task, nextId)
        /\ nextId' = nextId + Allocated(ret')
        /\ log' = checkpoint_log(holder, run_name)
        /\ UNCHANGED <<args, holder, trainers>>

\* variant: create_logger stores the experiment's directory back into
\* self.logs_dir
CallCreateLogger_stores ==
    \E experiment_name \in RunNames, random \in RandomNames :
        /\ call.n < MaxDirectCalls
        /\ experiment_name # "" => random = Repeat("a", RandomNameLen)
        /\ call' = [method |-> "create_logger", n |-> call.n + 1,
                    experiment_name |-> experiment_name]
        /\ ret' = [kind |-> "list",
                   value |-> create_logger(holder, experiment_name, random, nextId)]
        /\ nextId' = nextId + 1
        /\ log' = logger_log(holder, experiment_name, random)
        /\ holder' = [holder EXCEPT !.logs_dir =
                          PathJoin(@, experiment_name_used(experiment_name, random))]
        /\ UNCHANGED <<args, trainers>>

CallCreateLogger ==
    \E experiment_name \in RunNames, random \in RandomNames :
        /\ call.n < MaxDirectCalls
        /\ experiment_name # "" => random = Repeat("a", RandomNameLen)
        /\ call' = [method |-> "create_logger", n |-> call.n + 1,
                    experiment_name |-> experiment_name]
        /\ ret' = [kind |-> "list",
                   value |-> create_logger(holder, experiment_name, random, nextId)]
        /\ nextId' = nextId + 1
        /\ log' = logger_log(holder, experiment_name, random)
        /\ UNCHANGED <<args, holder, trainers>>

CallTrainingStrategy ==
    /\ call.n < MaxDirectCalls
    /\ call' = [method |-> "training_strategy", n |-> call.n + 1]
    /\ ret' = training_strategy(holder, nextId)
    /\ nextId' = nextId + Allocated(ret')
    /\ log' = <<>>
    /\ UNCHANGED <<args, holder, trainers>>

CallCreateTrainer ==
    \E run_name \in RunNames, random \in RandomNames :
        /\ Len(trainers) < MaxTrainers
        /\ run_name # "" => random = Repeat("a", RandomNameLen)
        /\ call' = [method |-> "create_trainer", n |-> call.n, run_name |-> run_name]
        /\ ret' = create_trainer(holder, run_name, random, nextId)
        /\ nextId' = ret'.id + 1
        /\ log' = checkpoint_log(holder, run_name) \o logger_log(holder, run_name, random)
        /\ trainers' = Append(trainers, ret')
        /\ UNCHANGED <<args, holder>>

Next ==
    \/ CallRegressionMetricName
    \/ CallClassificationMetricName
    \/ CallGradientAccumulatorCallback
    \/ CallEarlyStoppingCallback
    \/ CallCheckpointCallback
    \/ CallCreateLogger
    \/ CallTrainingStrategy
    \/ CallCreateTrainer

Spec == Init /\ [][Next]_vars

(***************************************************************************)
(* Vocabulary of the properties.                                           *)
(***************************************************************************)
\* the holder was built with a model class whose name contains "Classification"
ClassificationHolder == Contains("Classification", args.config.model_class_name)

\* <checkpoints_dir>/<run_name>, written out
CheckpointDirOf(run_name) == args.checkpoints_dir \o "/" \o run_name

\* position of the last "{" of a filename template
LastBrace(f) ==
    CHOOSE i \in 1..Len(f) :
        /\ SubSeq(f, i, i) = "{"
        /\ \A j \in (i + 1)..Len(f) : SubSeq(f, j, j) # "{"

\* the metric key of a filename template: the name of its last replacement
\* field, up to the ":" that starts the format
TemplateMetricKey(f) ==
    LET open == LastBrace(f)
        colon == CHOOSE j \in (open + 1)..Len(f) :
                     /\ SubSeq(f, j, j) = ":"
                     /\ \A k \in (open + 1)..(j - 1) : SubSeq(f, k, k) # ":"
    IN  SubSeq(f, open + 1, colon - 1)

\* identities of the callbacks and loggers attached to a run object
AttachedIds(t) ==
    { t.callbacks[i].id : i \in 1..Len(t.callbacks) }
        \cup { t.logger[i].id : i \in 1..Len(t.logger) }

\* identities of the objects create_trainer builds for a run object
BuiltIds(t) ==
    {t.callbacks[1].id, t.callbacks[2].id} \cup { t.logger[i].id : i \in 1..Len(t.logger) }

(***************************************************************************)
(* C1.  For a holder built with a classification model, the monitor target *)
(* is monitor_set + "_" + the last classification metric name when         *)
(* trade_off is true and + the first one when it is false; with            *)
(* monitor_set = "val" it is "val_mean", respectively "val_auroc".         *)
(***************************************************************************)
C1_ClassificationMonitorTarget ==
    ClassificationHolder =>
        LET names == classification_metric_name(args.config.trade_off)
            s == args.monitor_set
        IN  /\ args.config.trade_off =>
                holder.metric_to_monitor = s \o "_" \o names[Len(names)]
            /\ ~args.config.trade_off =>
                holder.metric_to_monitor = s \o "_" \o names[1]
            /\ (s = "val" /\ args.config.trade_off) =>
                holder.metric_to_monitor = "val_mean"
            /\ (s = "val" /\ ~args.config.trade_off) =>
                holder.metric_to_monitor = "val_auroc"

C1_Witness ==
    /\ ClassificationHolder
    /\ args.config.trade_off
    /\ args.monitor_set = "val"
    /\ holder.metric_to_monitor = "val_mean"

(***************************************************************************)
(* C2.  training_strategy() follows the decision table: cuda and           *)
(* distributed gives the distributed strategy with unused-parameter        *)
(* detection disabled, cuda and not distributed gives single-device on     *)
(* that GPU, cpu gives single-device on CPU, and every other device kind   *)
(* gives single-device on CPU; the result is never absent.                 *)
(***************************************************************************)
C2_StrategyDecisionTable ==
    call.method = "training_strategy" =>
        /\ ret # None
        /\ (holder.device.type = "cuda" /\ holder.is_distributed) =>
               ret = [kind |-> "str", value |-> "ddp_find_unused_parameters_false"]
        /\ (holder.device.type = "cuda" /\ ~holder.is_distributed) =>
               /\ ret.kind = "SingleDeviceStrategy"
               /\ ret.device = holder.device
               /\ ret.accelerator = "cuda"
        /\ holder.device.type # "cuda" =>
               /\ ret.kind = "SingleDeviceStrategy"
               /\ ret.device.type = "cpu"
               /\ ret.accelerator = "cpu"

(***************************************************************************)
(* C3.  As claimed: for every holder, checkpoint_callback(run_name,        *)
(* task="regression") returns a minimize-mode policy that monitors         *)
(* "val_rmse" and writes to <checkpoints_dir>/<run_name>.                  *)
(***************************************************************************)
C3_RegressionTaskMonitorsValRmse ==
    (call.method = "checkpoint_callback" /\ call.task = "regression") =>
        /\ ret.kind = "ModelCheckpoint"
        /\ ret.mode = "min"
        /\ ret.monitor = "val_rmse"
        /\ ret.dirpath = CheckpointDirOf(call.run_name)

(***************************************************************************)
(* C3, amended.  checkpoint_callback(run_name, task="regression") returns  *)
(* a minimize-mode policy that monitors the holder's monitor target and    *)
(* writes to <checkpoints_dir>/<run_name>; the monitored metric is         *)
(* "val_rmse" when the holder was built with a non-classification model.   *)
(***************************************************************************)
C3_RegressionTaskMonitorsTarget ==
    (call.method = "checkpoint_callback" /\ call.task = "regression") =>
        /\ ret.kind = "ModelCheckpoint"
        /\ ret.mode = "min"
        /\ ret.monitor = holder.metric_to_monitor
        /\ ~ClassificationHolder => ret.monitor = "val_rmse"
        /\ ret.dirpath = CheckpointDirOf(call.run_name)

C3_Witness ==
    /\ call.method = "checkpoint_callback"
    /\ call.task = "regression"
    /\ call.run_name = "run1"
    /\ ClassificationHolder
    /\ ret.mode = "min"
    /\ ret.monitor # "val_rmse"

(***************************************************************************)
(* C4.  For every task value, checkpoint_callback returns a checkpoint     *)
(* policy: minimize for "regression", maximize for "classification",       *)
(* save-last enabled, monitoring the holder's monitor target, writing to   *)
(* <checkpoints_dir>/<run_name>.                                           *)
(***************************************************************************)
C4_CheckpointPolicyForEveryTask ==
    call.method = "checkpoint_callback" =>
        /\ ret.kind = "ModelCheckpoint"
        /\ call.task = "regression" => ret.mode = "min"
        /\ call.task = "classification" => ret.mode = "max"
        /\ ret.save_last
        /\ ret.monitor = holder.metric_to_monitor
        /\ ret.dirpath = CheckpointDirOf(call.run_name)

(***************************************************************************)
(* C5.  For a holder built with a non-classification model the monitor     *)
(* target is "val_rmse", whatever monitor_set and trade_off are.           *)
(***************************************************************************)
C5_RegressionMonitorTarget ==
    ~ClassificationHolder => holder.metric_to_monitor = "val_rmse"

C5_Witness ==
    /\ ~ClassificationHolder
    /\ args.monitor_set = "train"
    /\ args.config.trade_off
    /\ holder.metric_to_monitor = "val_rmse"

(***************************************************************************)
(* C6.  early_stopping_callback has two outcomes: use_loss gives monitor   *)
(* "val_loss" in minimize mode, otherwise the holder's monitor target in   *)
(* maximize mode; min-delta and patience are the configuration's           *)
(* early-stopping values and check-finite is enabled in both.              *)
(***************************************************************************)
C6_EarlyStoppingOutcomes ==
    call.method = "early_stopping_callback" =>
        /\ ret.kind = "EarlyStopping"
        /\ call.use_loss => (ret.monitor = "val_loss" /\ ret.mode = "min")
        /\ ~call.use_loss =>
               (ret.monitor = holder.metric_to_monitor /\ ret.mode = "max")
        /\ ret.min_delta = args.config.early_stopping.min_delta
        /\ ret.patience = args.config.early_stopping.patience
        /\ ret.check_finite

C6_Witness ==
    /\ call.method = "early_stopping_callback"
    /\ ~call.use_loss
    /\ ~ClassificationHolder
    /\ ret.monitor = "val_rmse"
    /\ ret.mode = "max"

(***************************************************************************)
(* C7.  As claimed: for any two calls of create_trainer on one holder, no  *)
(* callback and no logger attached to the first run object is the same     *)
(* object as one attached to the second.                                   *)
(***************************************************************************)
C7_NoObjectSharedAcrossTrainers ==
    \A i, j \in 1..Len(trainers) :
        i < j => AttachedIds(trainers[i]) \cap AttachedIds(trainers[j]) = {}

(***************************************************************************)
(* C7, amended.  For any two calls of create_trainer on one holder, the    *)
(* early-stopping policy, the checkpoint policy and the logger of the      *)
(* first run object are objects of their own, attached to no other run     *)
(* object; the learning-rate monitor and the timer are the two objects     *)
(* the holder built at construction, attached to every run object.         *)
(***************************************************************************)
C7_OnlyHolderCallbacksShared ==
    \A i, j \in 1..Len(trainers) :
        i < j =>
            /\ BuiltIds(trainers[i]) \cap AttachedIds(trainers[j]) = {}
            /\ BuiltIds(trainers[j]) \cap AttachedIds(trainers[i]) = {}
            /\ Cardinality(BuiltIds(trainers[i])) = 3
            /\ AttachedIds(trainers[i]) \cap AttachedIds(trainers[j])
                   = {holder.lr_monitor.id, holder.timer.id}
            /\ trainers[i].callbacks[3] = trainers[j].callbacks[3]
            /\ trainers[i].callbacks[4] = trainers[j].callbacks[4]

C7_Witness ==
    /\ Len(trainers) = 2
    /\ trainers[1].callbacks[1].id # trainers[2].callbacks[1].id
    /\ trainers[1].callbacks[3].id = trainers[2].callbacks[3].id

(***************************************************************************)
(* C8.  create_trainer(run_name) attaches, in this order, the loss-based   *)
(* early-stopping policy, the checkpoint policy of the task, the           *)
(* learning-rate monitor and the timer; the task is "classification" iff   *)
(* the model class name contains "Classification", so the checkpoint       *)
(* policy is minimize-mode iff the monitor target is "val_rmse" and        *)
(* maximize-mode iff it is a classification metric.  The run object has    *)
(* max epochs = the epoch count, log frequency = the batch size, gradient  *)
(* clip 1.0, root directory = the checkpoints directory and sanity         *)
(* validation -1.                                                          *)
(***************************************************************************)
C8_TrainerAssembly ==
    call.method = "create_trainer" =>
        LET cb == ret.callbacks
            classMetrics == { args.monitor_set \o "_" \o m : m \in {"auroc", "prc", "mean"} }
        IN  /\ Len(cb) = 4
            /\ cb[1].kind = "EarlyStopping"
            /\ cb[1].monitor = "val_loss"
            /\ cb[1].mode = "min"
            /\ cb[2].kind = "ModelCheckpoint"
            /\ cb[2].dirpath = CheckpointDirOf(call.run_name)
            /\ cb[2].monitor = holder.metric_to_monitor
            /\ ClassificationHolder <=> cb[2].mode = "max"
            /\ ~ClassificationHolder <=> cb[2].mode = "min"
            /\ cb[2].mode = "min" <=> holder.metric_to_monitor = "val_rmse"
            /\ cb[2].mode = "max" <=> holder.metric_to_monitor \in classMetrics
            /\ cb[3].kind = "LearningRateMonitor"
            /\ cb[4].kind = "Timer"
            /\ ret.max_epochs = args.config.num_epochs
            /\ ret.log_every_n_steps = args.config.batch_size
            /\ ret.gradient_clip_val = 1
            /\ ret.default_root_dir = args.checkpoints_dir
            /\ ret.num_sanity_val_steps = -1

C8_Witness ==
    /\ call.method = "create_trainer"
    /\ call.run_name = "run1"
    /\ ClassificationHolder
    /\ args.monitor_set = "train"
    /\ ret.callbacks[1].monitor = "val_loss"
    /\ ret.callbacks[2].mode = "max"

(***************************************************************************)
(* C9.  Over any sequence of calls the holder's fixed values keep the      *)
(* values construction gave them: monitor target, monitor_set, device,     *)
(* distributed flag, checkpoints directory and logs directory.             *)
(***************************************************************************)
C9_HolderFieldsFixed ==
    LET built == Construct(args)
    IN  /\ holder.metric_to_monitor = built.metric_to_monitor
        /\ holder.monitor_set = built.monitor_set
        /\ holder.device = built.device
        /\ holder.is_distributed = built.is_distributed
        /\ holder.checkpoints_dir = built.checkpoints_dir
        /\ holder.logs_dir = built.logs_dir

C9_Witness ==
    /\ Len(trainers) = MaxTrainers
    /\ call.n = MaxDirectCalls
    /\ call.method = "create_logger"
    /\ holder.logs_dir = "logs/metrics"

(***************************************************************************)
(* C10.  As claimed: for every classification holder, the filename         *)
(* template of checkpoint_callback(run_name, task="classification") names  *)
(* the metric the policy monitors, also when monitor_set is neither        *)
(* "train" nor "val".                                                      *)
(***************************************************************************)
C10_TemplateNamesMonitorTarget ==
    (ClassificationHolder /\ call.method = "checkpoint_callback"
        /\ call.task = "classification") =>
        /\ ret.monitor = holder.metric_to_monitor
        /\ TemplateMetricKey(ret.filename) = ret.monitor

(***************************************************************************)
(* C10, amended.  For every classification holder whose monitor_set is     *)
(* "train" or "val", the filename template names the metric the policy     *)
(* monitors; for any other monitor_set the template is the "val" one       *)
(* (val_mean when the monitor target contains "mean", else val_auroc),     *)
(* which is not the monitored metric.                                      *)
(***************************************************************************)
C10_TemplateNamesTargetForTrainAndVal ==
    (ClassificationHolder /\ call.method = "checkpoint_callback"
        /\ call.task = "classification") =>
        /\ ret.monitor = holder.metric_to_monitor
        /\ TemplateMetricKey(ret.filename)
               \in {"train_mean", "val_mean", "train_auroc", "val_auroc"}
        /\ args.monitor_set \in {"train", "val"} =>
               TemplateMetricKey(ret.filename) = ret.monitor
        /\ args.monitor_set \notin {"train", "val"} =>
               /\ TemplateMetricKey(ret.filename) # ret.monitor
               /\ TemplateMetricKey(ret.filename) =
                      (IF Contains("mean", ret.monitor) THEN "val_mean" ELSE "val_auroc")

C10_Witness ==
    /\ ClassificationHolder
    /\ call.method = "checkpoint_callback"
    /\ call.task = "classification"
    /\ args.monitor_set = "train"
    /\ ~args.config.trade_off
    /\ TemplateMetricKey(ret.filename) = "train_auroc"

====
